---- MODULE Spec2Model ----
(***************************************************************************)
(* aiodown: Client (the download list) and Download (one streamed file).   *)
(* The caller is one coroutine that calls the public API; every Download   *)
(* owns one asyncio task, created by its constructor, that runs _request.  *)
(* A task step runs from one await to the next; the awaits of _request are *)
(* the program counter values of the Download record.                      *)
(***************************************************************************)
EXTENDS Integers, Sequences, FiniteSets, TLC

\* ---------------------------------------------------------------- bounds
\* Calls of the public API the caller makes in one run.
MaxCalls == 4
\* Size of the remote source in bytes (Content-Length).
SrcSize == 2
\* Largest value of the retries argument of Client.add.
MaxRetries == 1

\* Every Download object is constructed by a call of Client.add.
Objs == 1..MaxCalls
Ids == 0..MaxCalls
RetrySet == 0..MaxRetries

\* ---------------------------------------------------------------- state
VARIABLES
    running,     \* Client._running
    downloads,   \* Client._downloads: id -> Download object
    order,       \* insertion order of the keys of Client._downloads
    nobj,        \* number of Download objects constructed so far
    dl,          \* the Download objects: object -> record of its fields
    clientPc,    \* "idle", or "starting" while Client.start is suspended
    todo,        \* ids Client.start has still to start
    res,         \* the caller's last call: operation, argument, outcome
    calls        \* number of calls the caller has made

vars == <<running, downloads, order, nobj, dl, clientPc, todo, res, calls>>

\* Outcomes of a call.
Ok == "ok"
Pending == "pending"
ErrRunning == "RuntimeError: downloads in progress"
ErrStarted == "RuntimeError: downloads have already started"
ErrNotRunning == "RuntimeError: no download in progress"
ErrInProgress == "RuntimeError: the download is in progress"
ErrKey == "KeyError"
ErrType == "TypeError"
ErrAlreadyStarted == "RuntimeError: download is already started"
ErrAlreadyStopped == "RuntimeError: download is already stopped"
ErrFinished == "FinishedError"
ErrProgress == "ProgressError"
ErrPaused == "PausedError"

\* Download.__init__: the fields of a new Download.  pc is the position of
\* the task created by ensure_future: "init" until its first step.
NewDownload(id, retries) ==
    [ id |-> id,
      status |-> "ready",
      retries |-> retries,
      attempts |-> 0,
      bytes_total |-> 0,
      bytes_downloaded |-> 0,
      start |-> 0,          \* _start: 0, then the ordinal of the call of
                            \* start() that set it (datetime.now())
      pc |-> "init",
      cancel |-> FALSE,     \* a cancellation is pending on the task
      stop_called |-> FALSE, \* stop() has succeeded since the last start()
      recv |-> 0,           \* response.num_bytes_downloaded
      chunk |-> 0,          \* size of the chunk the loop body holds
      late |-> FALSE,       \* the held chunk arrived after stop()
      streak |-> 0,         \* transient errors in a row, none since
                            \* start() or the last completed reconnect
      file |-> << >> ]      \* output file: source offsets, in file order

\* An object not constructed yet.
NoDownload == [NewDownload(0, 0) EXCEPT !.pc = "none"]

\* The task has returned ("done") or ended with an exception ("raised").
TaskDone(r) == r.pc \in {"done", "raised"}

\* Download.is_finished
is_finished(r) == r.status \in {"failed", "finished", "ready", "stopped"}

\* Download.get_progress, in tenths of a percent: the quotient formatted with
\* one decimal (rounded to the nearest tenth), 0 on ZeroDivisionError.
get_progress(r) ==
    IF r.bytes_total = 0
    THEN 0
    ELSE (2 * r.bytes_downloaded * 1000 + r.bytes_total) \div (2 * r.bytes_total)

\* The attribute self.get_status read without a call: the bound method
\* object, which is no string.
get_status_attr(r) == "<bound method Download.get_status>"

\* Download.is_success: the exception raised (Ok for none) and the value
\* returned, the comparison of self.get_status with "finished".
is_success(r) ==
    IF ~is_finished(r)
    THEN [err |-> ErrProgress, value |-> FALSE]
    ELSE [err |-> Ok, value |-> (get_status_attr(r) = "finished")]

\* Client.check_is_running, on the objects dlm held under the mapping dmap.
check_is_running(dlm, dmap, run) ==
    IF \A i \in DOMAIN dmap : is_finished(dlm[dmap[i]]) THEN FALSE ELSE run

\* The record of a call: the operation, its argument (the id for rem(id), the
\* object for a Download method, 0 otherwise) and the outcome.
Result(op, arg, err) == [op |-> op, arg |-> arg, err |-> err]

Init ==
    /\ running = FALSE
    /\ downloads = << >>
    /\ order = << >>
    /\ nobj = 0
    /\ dl = [o \in Objs |-> NoDownload]
    /\ clientPc = "idle"
    /\ todo = << >>
    /\ res = [op |-> "none", arg |-> 0, err |-> Ok]
    /\ calls = 0

\* ------------------------------------------------------ Download._request
\* The output bytes of the chunk the loop body holds: the source offsets
\* recv-chunk+1 .. recv.
ChunkBytes(r) == [i \in 1..r.chunk |-> r.recv - r.chunk + i]

\* Entry of _request up to its first await: the status guard, the check of
\* the destination path (exists: what os.path.exists answers; the
\* FileExistsError ends the task, pc "raised") and the move to "downloading".
Enter(r, exists) ==
    IF r.status \in {"reconnecting", "started"}
    THEN IF r.status # "reconnecting"
         THEN IF exists
              THEN [r EXCEPT !.pc = "raised"]
              ELSE [r EXCEPT !.status = "downloading", !.pc = "open"]
         ELSE [r EXCEPT !.pc = "open"]
    ELSE [r EXCEPT !.pc = "done"]

\* The response and the chunk held go out of scope.
Release(r) == [r EXCEPT !.recv = 0, !.chunk = 0, !.late = FALSE]

\* ExceptTransient with the retry test off by one (<= for <).
ExceptTransientOffByOne(r) ==
    LET r1 == [Release(r) EXCEPT !.status = "reconnecting", !.streak = r.streak + 1]
    IN  IF r1.attempts <= r1.retries
        THEN [r1 EXCEPT !.pc = "backoff"]
        ELSE [r1 EXCEPT !.status = "failed", !.pc = "done"]

\* The first except clause of _request: the transient transport errors.
ExceptTransient(r) ==
    LET r1 == [Release(r) EXCEPT !.status = "reconnecting", !.streak = r.streak + 1]
    IN  IF r1.attempts < r1.retries
        THEN [r1 EXCEPT !.pc = "backoff"]
        ELSE [r1 EXCEPT !.status = "failed", !.pc = "done"]

\* The bare except clause of _request: every other exception.  The caller
\* of this operator also runs Client.check_is_running.
ExceptOther(r) ==
    [Release(r) EXCEPT !.status = "failed", !.pc = "done"]

\* The loop body after the stop and pause tests: the reconnect offset test,
\* then the write.
Process(r) ==
    IF r.status = "reconnecting" /\ r.recv < r.bytes_downloaded
    THEN [r EXCEPT !.pc = "next", !.chunk = 0, !.late = FALSE]
    ELSE LET r1 == IF r.status = "reconnecting"
                   THEN [r EXCEPT !.attempts = 0, !.status = "downloading",
                                  !.streak = 0]
                   ELSE r
         IN  IF r1.recv > 0
             THEN [r1 EXCEPT !.pc = "write"]
             ELSE [r1 EXCEPT !.pc = "next", !.chunk = 0, !.late = FALSE]

\* The loop body from the arrival of a chunk of n bytes.
LoopBody(r, n) ==
    LET r1 == [r EXCEPT !.recv = r.recv + n, !.chunk = n, !.late = r.stop_called]
    IN  IF r1.status = "stopped"
        THEN [r1 EXCEPT !.pc = "close", !.chunk = 0, !.late = FALSE]
        ELSE IF r1.status = "paused"
        THEN [r1 EXCEPT !.pc = "pausewait"]
        ELSE Process(r1)

\* What a task with a pending cancellation does at its next step: the
\* CancelledError is raised at the await the task is suspended in.  Inside
\* the try block the bare except clause catches it; in the back-off sleep of
\* the first except clause it leaves _request.
CancelKind(r) ==
    IF r.pc \in {"open", "next", "pausewait", "write", "written", "close"}
    THEN "other"
    ELSE "leave"

\* Every task created by a constructor and not run yet takes its first step
\* as soon as the caller is suspended.  exists is the answer of
\* os.path.exists for a task that gets as far as asking.
RunNewTasks(dlm, exists) ==
    [o \in Objs |-> IF dlm[o].pc = "init" THEN Enter(dlm[o], exists) ELSE dlm[o]]

NoNewTask == \A o \in Objs : dl[o].pc # "init"

\* A step of the task of object o that leaves the Client alone.
TaskStep(o, r) ==
    /\ dl' = [dl EXCEPT ![o] = r]
    /\ UNCHANGED <<running, downloads, order, nobj, clientPc, todo, res, calls>>

\* A step of the task of object o that ends in Client.check_is_running.
TaskStepNotify(o, r) ==
    /\ dl' = [dl EXCEPT ![o] = r]
    /\ running' = check_is_running(dl', downloads, running)
    /\ UNCHANGED <<downloads, order, nobj, clientPc, todo, res, calls>>

Live(o) == o <= nobj /\ NoNewTask /\ ~dl[o].cancel

\* The response arrives with status 200 and a Content-Length; the output
\* file is opened in mode "wb".
Responds(o) ==
    /\ Live(o) /\ dl[o].pc = "open"
    /\ TaskStep(o, [dl[o] EXCEPT !.bytes_total = SrcSize, !.recv = 0,
                                 !.file = << >>, !.pc = "next"])

\* The transport raises one of the errors of the first except clause.
TransientError(o) ==
    /\ Live(o) /\ dl[o].pc \in {"open", "next", "close"}
    /\ TaskStep(o, ExceptTransient(dl[o]))

\* Any other exception is raised inside the try block.
OtherError(o) ==
    /\ Live(o) /\ dl[o].pc \in {"open", "next", "write", "close"}
    /\ TaskStepNotify(o, ExceptOther(dl[o]))

\* aiter_bytes yields a chunk of n bytes.
NextChunk(o, n) ==
    /\ Live(o) /\ dl[o].pc = "next"
    /\ n \in 1..(SrcSize - dl[o].recv)
    /\ TaskStep(o, LoopBody(dl[o], n))

\* asyncio.sleep(0.1) of the pause loop returns and the status is no longer
\* "paused".
PauseWake(o) ==
    /\ Live(o) /\ dl[o].pc = "pausewait"
    /\ dl[o].status # "paused"
    /\ TaskStep(o, Process(dl[o]))

\* The write of the held chunk reaches the file.
WriteLands(o) ==
    /\ Live(o) /\ dl[o].pc = "write"
    /\ TaskStep(o, [dl[o] EXCEPT !.file = dl[o].file \o ChunkBytes(dl[o]),
                                 !.pc = "written"])

\* file.write returns: _bytes_downloaded is assigned.
WriteReturns(o) ==
    /\ Live(o) /\ dl[o].pc = "written"
    /\ TaskStep(o, [dl[o] EXCEPT !.bytes_downloaded = dl[o].recv, !.chunk = 0,
                                 !.late = FALSE, !.pc = "next"])

\* EndOfStream without the call of Client.check_is_running.
EndOfStreamSilent(o) ==
    /\ Live(o) /\ dl[o].pc = "next"
    /\ dl[o].recv = SrcSize
    /\ IF dl[o].status # "stopped"
       THEN TaskStep(o, [dl[o] EXCEPT !.status = "finished", !.pc = "close"])
       ELSE TaskStep(o, [dl[o] EXCEPT !.pc = "close"])

\* The chunk sequence is exhausted.
EndOfStream(o) ==
    /\ Live(o) /\ dl[o].pc = "next"
    /\ dl[o].recv = SrcSize
    /\ IF dl[o].status # "stopped"
       THEN TaskStepNotify(o, [dl[o] EXCEPT !.status = "finished", !.pc = "close"])
       ELSE TaskStep(o, [dl[o] EXCEPT !.pc = "close"])

\* file.close and client.aclose return.
Closed(o) ==
    /\ Live(o) /\ dl[o].pc = "close"
    /\ TaskStep(o, [Release(dl[o]) EXCEPT !.pc = "done"])

\* asyncio.sleep(3) returns: one more attempt, _request is entered again.
BackoffElapsed(o) ==
    /\ Live(o) /\ dl[o].pc = "backoff"
    /\ \E exists \in BOOLEAN :
         TaskStep(o, Enter([dl[o] EXCEPT !.attempts = dl[o].attempts + 1], exists))

\* Cancelled with the CancelledError caught by the first except clause, as
\* if it were listed among the transient errors.
CancelledAsTransient(o) ==
    /\ o <= nobj /\ NoNewTask /\ dl[o].cancel
    /\ TaskStep(o, ExceptTransient([dl[o] EXCEPT !.cancel = FALSE]))

\* The pending cancellation is delivered.  A write that is in flight may or
\* may not reach the file.
Cancelled(o) ==
    /\ o <= nobj /\ NoNewTask /\ dl[o].cancel
    /\ \E lands \in BOOLEAN :
         LET r0 == [dl[o] EXCEPT !.cancel = FALSE]
             r1 == IF dl[o].pc = "write" /\ lands
                   THEN [r0 EXCEPT !.file = dl[o].file \o ChunkBytes(dl[o])]
                   ELSE r0
         IN  IF CancelKind(dl[o]) = "other"
             THEN TaskStepNotify(o, ExceptOther(r1))
             ELSE TaskStep(o, [Release(r1) EXCEPT !.pc = "done"])

\* ------------------------------------------------- Download: the public API
\* The caller is not inside Client.start and makes one more call.
Call == clientPc = "idle" /\ calls < MaxCalls /\ calls' = calls + 1


\* Each operator below gives the objects after the call and the outcome.

\* Download.start with "downloading" answered like "started".
Download_startDownloadingAsStarted(dlm, o, exists, now) ==
    IF dlm[o].status \in {"started", "downloading"}
    THEN [dl |-> dlm, err |-> ErrAlreadyStarted]
    ELSE IF ~is_finished(dlm[o])
    THEN [dl |-> dlm, err |-> ErrProgress]
    ELSE [dl |-> RunNewTasks([dlm EXCEPT ![o].status = "started",
                                         ![o].start = now,
                                         ![o].stop_called = FALSE,
                                         ![o].streak = 0], exists),
          err |-> Ok]

\* Download.start up to and including its await: the status tests, the move
\* to "started", and the await in which the tasks not run yet take their
\* first step.  The executor call of _task raises TypeError in its thread
\* and gather swallows it, so nothing else is launched.
Download_start(dlm, o, exists, now) ==
    IF dlm[o].status = "started"
    THEN [dl |-> dlm, err |-> ErrAlreadyStarted]
    ELSE IF ~is_finished(dlm[o])
    THEN [dl |-> dlm, err |-> ErrProgress]
    ELSE [dl |-> RunNewTasks([dlm EXCEPT ![o].status = "started",
                                         ![o].start = now,
                                         ![o].stop_called = FALSE,
                                         ![o].streak = 0], exists),
          err |-> Ok]

\* Download.stop: Task.cancel acts on a task that is not done.
Download_stop(dlm, dmap, run, o) ==
    IF is_finished(dlm[o])
    THEN [dl |-> dlm, running |-> run, err |-> ErrFinished]
    ELSE IF dlm[o].status = "stopped"
    THEN [dl |-> dlm, running |-> run, err |-> ErrAlreadyStopped]
    ELSE LET d2 == [dlm EXCEPT ![o].status = "stopped",
                               ![o].stop_called = TRUE,
                               ![o].cancel = ~TaskDone(dlm[o])]
         IN  [dl |-> d2, running |-> check_is_running(d2, dmap, run), err |-> Ok]

\* Download.pause
Download_pause(dlm, o) ==
    IF is_finished(dlm[o])
    THEN [dl |-> dlm, err |-> ErrFinished]
    ELSE IF dlm[o].status = "paused"
    THEN [dl |-> dlm, err |-> ErrPaused]
    ELSE [dl |-> [dlm EXCEPT ![o].status = "paused"], err |-> Ok]

\* Download.resume without the test of "paused".
Download_resumeUnchecked(dlm, o) ==
    IF is_finished(dlm[o])
    THEN [dl |-> dlm, err |-> ErrFinished]
    ELSE [dl |-> [dlm EXCEPT ![o].status = "downloading"], err |-> Ok]

\* Download.resume
Download_resume(dlm, o) ==
    IF is_finished(dlm[o])
    THEN [dl |-> dlm, err |-> ErrFinished]
    ELSE IF dlm[o].status # "paused"
    THEN [dl |-> dlm, err |-> ErrProgress]
    ELSE [dl |-> [dlm EXCEPT ![o].status = "downloading"], err |-> Ok]

Idle(o) == Call /\ o \in 1..nobj

\* The caller awaits start() of a Download it holds.
DStart(o) ==
    /\ Idle(o)
    /\ \E exists \in BOOLEAN :
         LET c == Download_start(dl, o, exists, calls')
         IN  /\ dl' = c.dl
             /\ res' = Result("Download.start", o, c.err)
    /\ UNCHANGED <<running, downloads, order, nobj, clientPc, todo>>

\* The caller awaits stop() of a Download it holds.
DStop(o) ==
    /\ Idle(o)
    /\ LET c == Download_stop(dl, downloads, running, o)
       IN  /\ dl' = c.dl
           /\ running' = c.running
           /\ res' = Result("Download.stop", o, c.err)
    /\ UNCHANGED <<downloads, order, nobj, clientPc, todo>>

\* The caller awaits pause() of a Download it holds.
DPause(o) ==
    /\ Idle(o)
    /\ LET c == Download_pause(dl, o)
       IN  /\ dl' = c.dl
           /\ res' = Result("Download.pause", o, c.err)
    /\ UNCHANGED <<running, downloads, order, nobj, clientPc, todo>>

\* The caller awaits resume() of a Download it holds.
DResume(o) ==
    /\ Idle(o)
    /\ LET c == Download_resume(dl, o)
       IN  /\ dl' = c.dl
           /\ res' = Result("Download.resume", o, c.err)
    /\ UNCHANGED <<running, downloads, order, nobj, clientPc, todo>>

\* The caller awaits something of its own (asyncio.sleep): the tasks not run
\* yet take their first step.
CallerYield ==
    /\ clientPc = "idle"
    /\ ~NoNewTask
    /\ \E exists \in BOOLEAN : dl' = RunNewTasks(dl, exists)
    /\ UNCHANGED <<running, downloads, order, nobj, clientPc, todo, res, calls>>

\* ----------------------------------------------------------------- Client
\* The dictionary after self._downloads[key] = o.
Put(dmap, key, o) == [i \in DOMAIN dmap \cup {key} |-> IF i = key THEN o ELSE dmap[i]]

\* The dictionary after del self._downloads[key].
Del(dmap, key) == [i \in DOMAIN dmap \ {key} |-> dmap[i]]

\* The id Client.add gives the new Download.
NewId(dmap) == Cardinality(DOMAIN dmap)

\* Client.add without the test of is_running.
ClientAddUnguarded(retries) ==
    /\ Call
    /\ LET dl_id == NewId(downloads)
       IN  /\ nobj' = nobj + 1
           /\ dl' = [dl EXCEPT ![nobj + 1] = NewDownload(dl_id, retries)]
           /\ downloads' = Put(downloads, dl_id, nobj + 1)
           /\ order' = IF dl_id \in DOMAIN downloads
                       THEN order
                       ELSE Append(order, dl_id)
           /\ res' = Result("add", 0, Ok)
    /\ UNCHANGED <<running, clientPc, todo>>

\* Client.add
ClientAdd(retries) ==
    /\ Call
    /\ IF running
       THEN /\ res' = Result("add", 0, ErrRunning)
            /\ UNCHANGED <<running, downloads, order, nobj, dl, clientPc, todo>>
       ELSE /\ LET dl_id == NewId(downloads)
               IN  /\ nobj' = nobj + 1
                   /\ dl' = [dl EXCEPT ![nobj + 1] = NewDownload(dl_id, retries)]
                   /\ downloads' = Put(downloads, dl_id, nobj + 1)
                   /\ order' = IF dl_id \in DOMAIN downloads
                               THEN order
                               ELSE Append(order, dl_id)
                   /\ res' = Result("add", 0, Ok)
            /\ UNCHANGED <<running, clientPc, todo>>

\* Client.rem(True)
ClientRemAll ==
    /\ Call
    /\ IF running
       THEN /\ res' = Result("rem(True)", 0, ErrRunning)
            /\ UNCHANGED <<downloads, order>>
       ELSE /\ downloads' = << >>
            /\ order' = << >>
            /\ res' = Result("rem(True)", 0, Ok)
    /\ UNCHANGED <<running, nobj, dl, clientPc, todo>>

\* Client.rem(False)
ClientRemFalse ==
    /\ Call
    /\ res' = Result("rem(False)", 0, ErrType)
    /\ UNCHANGED <<running, downloads, order, nobj, dl, clientPc, todo>>

\* Client.rem(dl_id) without the test of is_finished.
ClientRemUnchecked(dl_id) ==
    /\ Call
    /\ IF dl_id \in DOMAIN downloads
       THEN /\ downloads' = Del(downloads, dl_id)
            /\ order' = SelectSeq(order, LAMBDA i : i # dl_id)
            /\ res' = Result("rem", dl_id, Ok)
       ELSE /\ res' = Result("rem", dl_id, ErrKey)
            /\ UNCHANGED <<downloads, order>>
    /\ UNCHANGED <<running, nobj, dl, clientPc, todo>>

\* Client.rem(dl_id), dl_id an integer.
ClientRem(dl_id) ==
    /\ Call
    /\ IF dl_id \in DOMAIN downloads
       THEN IF is_finished(dl[downloads[dl_id]])
            THEN /\ downloads' = Del(downloads, dl_id)
                 /\ order' = SelectSeq(order, LAMBDA i : i # dl_id)
                 /\ res' = Result("rem", dl_id, Ok)
            ELSE /\ res' = Result("rem", dl_id, ErrInProgress)
                 /\ UNCHANGED <<downloads, order>>
       ELSE /\ res' = Result("rem", dl_id, ErrKey)
            /\ UNCHANGED <<downloads, order>>
    /\ UNCHANGED <<running, nobj, dl, clientPc, todo>>

\* Client.start from the iteration that starts the Downloads of ids: it
\* is suspended in the await of each Download.start, an error of
\* Download.start leaves it, and after the last one it sets the flag.
StartLoop(ids) ==
    IF ids = << >>
    THEN /\ running' = TRUE
         /\ clientPc' = "idle"
         /\ todo' = << >>
         /\ res' = Result("start", 0, Ok)
         /\ UNCHANGED <<downloads, order, nobj, dl>>
    ELSE \E exists \in BOOLEAN :
           LET c == Download_start(dl, downloads[Head(ids)], exists, calls')
           IN  IF c.err = Ok
               THEN /\ dl' = c.dl
                    /\ clientPc' = "starting"
                    /\ todo' = Tail(ids)
                    /\ res' = Result("start", 0, Pending)
                    /\ UNCHANGED <<running, downloads, order, nobj>>
               ELSE /\ clientPc' = "idle"
                    /\ todo' = << >>
                    /\ res' = Result("start", 0, c.err)
                    /\ UNCHANGED <<running, downloads, order, nobj, dl>>

\* Client.start is called.
ClientStart ==
    /\ Call
    /\ IF running
       THEN /\ res' = Result("start", 0, ErrStarted)
            /\ UNCHANGED <<running, downloads, order, nobj, dl, clientPc, todo>>
       ELSE StartLoop(order)

\* Client.start goes on after the await of a Download.start.
ClientStartResume ==
    /\ clientPc = "starting"
    /\ UNCHANGED calls
    /\ StartLoop(todo)

\* The loop of Client.stop over the Downloads of ids; an error of
\* Download.stop leaves it.
RECURSIVE StopLoop(_, _, _)
StopLoop(ids, dlm, run) ==
    IF ids = << >>
    THEN [dl |-> dlm, running |-> FALSE, err |-> Ok]
    ELSE LET c == Download_stop(dlm, downloads, run, downloads[Head(ids)])
         IN  IF c.err = Ok
             THEN StopLoop(Tail(ids), c.dl, c.running)
             ELSE c

\* Client.stop
ClientStop ==
    /\ Call
    /\ IF ~running
       THEN /\ res' = Result("stop", 0, ErrNotRunning)
            /\ UNCHANGED <<running, dl>>
       ELSE LET c == StopLoop(order, dl, running)
            IN  /\ dl' = c.dl
                /\ running' = c.running
                /\ res' = Result("stop", 0, c.err)
    /\ UNCHANGED <<downloads, order, nobj, clientPc, todo>>

\* ---------------------------------------------------------- specification
\* The Client as the caller builds it, from the empty list.  The transport
\* yields the body as one chunk.
Next ==
    \/ \E r \in RetrySet : ClientAdd(r)
    \/ ClientRemAll
    \/ ClientRemFalse
    \/ \E i \in Ids : ClientRem(i)
    \/ ClientStart
    \/ ClientStartResume
    \/ ClientStop
    \/ CallerYield
    \/ \E o \in Objs : DStart(o)
    \/ \E o \in Objs : DStop(o)
    \/ \E o \in Objs : DPause(o)
    \/ \E o \in Objs : DResume(o)
    \/ \E o \in Objs : Responds(o)
    \/ \E o \in Objs : TransientError(o)
    \/ \E o \in Objs : OtherError(o)
    \/ \E o \in Objs : NextChunk(o, SrcSize - dl[o].recv)
    \/ \E o \in Objs : PauseWake(o)
    \/ \E o \in Objs : WriteLands(o)
    \/ \E o \in Objs : WriteReturns(o)
    \/ \E o \in Objs : EndOfStream(o)
    \/ \E o \in Objs : Closed(o)
    \/ \E o \in Objs : BackoffElapsed(o)
    \/ \E o \in Objs : Cancelled(o)

Spec == Init /\ [][Next]_vars

\* One Download in a Client, as add(url, retries=r) leaves them.  The
\* transport cuts the body into chunks of any size.
InitT ==
    /\ running = FALSE
    /\ downloads = (0 :> 1)
    /\ order = <<0>>
    /\ nobj = 1
    /\ \E r \in RetrySet :
         dl = [o \in Objs |-> IF o = 1 THEN NewDownload(0, r) ELSE NoDownload]
    /\ clientPc = "idle"
    /\ todo = << >>
    /\ res = [op |-> "add", arg |-> 0, err |-> Ok]
    /\ calls = 0

NextT ==
    \/ ClientStart
    \/ ClientStartResume
    \/ ClientStop
    \/ CallerYield
    \/ \E o \in Objs : DStart(o)
    \/ \E o \in Objs : DStop(o)
    \/ \E o \in Objs : DPause(o)
    \/ \E o \in Objs : DResume(o)
    \/ \E o \in Objs : Responds(o)
    \/ \E o \in Objs : TransientError(o)
    \/ \E o \in Objs : OtherError(o)
    \/ \E o \in Objs, n \in 1..SrcSize : NextChunk(o, n)
    \/ \E o \in Objs : PauseWake(o)
    \/ \E o \in Objs : WriteLands(o)
    \/ \E o \in Objs : WriteReturns(o)
    \/ \E o \in Objs : EndOfStream(o)
    \/ \E o \in Objs : Closed(o)
    \/ \E o \in Objs : BackoffElapsed(o)
    \/ \E o \in Objs : Cancelled(o)

SpecT == InitT /\ [][NextT]_vars

\* ------------------------------------------------------------ properties
\* The Download objects the Client holds.
Contained == {downloads[i] : i \in DOMAIN downloads}

\* This step is a call of op by the caller.
CallOf(op) == calls' = calls + 1 /\ res'.op = op

\* Every task has ended and the caller is not inside Client.start.
Quiescent == clientPc = "idle" /\ \A o \in 1..nobj : TaskDone(dl[o])

\* C1: once every Download of a started Client has ended in "finished",
\* "failed" or "stopped" and nothing is left to run, is_running() is false,
\* whatever path each Download took.
C1_RunningClearsOnceAllFinished ==
    ( /\ Quiescent
      /\ Contained # {}
      /\ \A o \in Contained : dl[o].status \in {"finished", "failed", "stopped"} )
    => ~running

\* C2: a Download that stop() has set to "stopped" keeps that status until
\* a later start(): no step of its task changes it.
C2_StoppedStays ==
    [][\A o \in Objs :
         dl[o].status = "stopped" => dl'[o].status \in {"stopped", "started"}]_vars

\* C3: no chunk that arrived after stop() set the status to "stopped" is
\* written to the output file.
C3_NoLateChunkWritten ==
    [][\A o \in Objs : Len(dl'[o].file) > Len(dl[o].file) => ~dl[o].late]_vars

\* stop() has acted while the task holds a chunk whose write is in flight.
C3_Witness ==
    \E o \in 1..nobj :
        /\ dl[o].stop_called /\ dl[o].status = "stopped" /\ dl[o].cancel
        /\ dl[o].pc = "write" /\ dl[o].chunk > 0

\* C4: after retries + 1 transient errors in a row the Download is "failed"
\* and get_attempts() equals retries.
C4_ExhaustedRetries ==
    \A o \in 1..nobj :
        dl[o].streak = dl[o].retries + 1
        => dl[o].status = "failed" /\ dl[o].attempts = dl[o].retries

\* A Download with retries >= 1 has used up its retries.
C4_Witness ==
    \E o \in 1..nobj :
        /\ dl[o].retries >= 1 /\ dl[o].streak = dl[o].retries + 1
        /\ dl[o].status = "failed" /\ dl[o].attempts = dl[o].retries

\* C5: every chunk written lies wholly beyond the recorded bytes_downloaded,
\* also after a reconnect, so no source byte is written twice.
C5_WritesOnlyBeyondOffset ==
    [][\A o \in Objs :
         Len(dl'[o].file) > Len(dl[o].file)
         => dl[o].recv - dl[o].chunk >= dl[o].bytes_downloaded]_vars

\* C6: while a Download stays "paused", get_size_downloaded() does not
\* change and the output file holds exactly bytes_downloaded bytes.
C6_PauseWindowFrozen ==
    [][\A o \in Objs :
         dl[o].status = "paused" /\ dl'[o].status = "paused"
         => /\ dl'[o].bytes_downloaded = dl[o].bytes_downloaded
            /\ Len(dl'[o].file) = dl'[o].bytes_downloaded]_vars

\* C7: Client.stop() called while is_running() is true and some Download is
\* still active does not fail, whatever the statuses of the others, and
\* leaves every contained Download finished and the flag false.
C7_StopStopsAll ==
    [][(running /\ CallOf("stop") /\ \E o \in Contained : ~is_finished(dl[o]))
       => /\ res'.err = Ok
          /\ \A o \in Contained : is_finished(dl'[o])
          /\ ~running']_vars

\* C8: after Client.start() has returned, no contained Download is left in
\* "started" with its task already over: each one has its worker running.
C8_EveryWorkerLaunched ==
    (clientPc = "idle" /\ res.op = "start" /\ res.err = Ok)
    => \A o \in Contained : ~(dl[o].status = "started" /\ dl[o].pc = "done")

\* C9: a successful Client.add gives an id greater than every id given
\* before, keeps every contained Download and grows the list by one.
C9_FreshIdAndGrowth ==
    [][(CallOf("add") /\ res'.err = Ok)
       => /\ \A o \in 1..nobj : dl'[nobj'].id > dl[o].id
          /\ \A i \in DOMAIN downloads :
               i \in DOMAIN downloads' /\ downloads'[i] = downloads[i]
          /\ Cardinality(DOMAIN downloads') = Cardinality(DOMAIN downloads) + 1]_vars

\* C10: Client.add called while is_running() is true fails with the
\* downloads-in-progress error and changes neither the list, the ids, the
\* Downloads nor the flag.
C10_AddWhileRunningFails ==
    [][(running /\ CallOf("add"))
       => /\ res'.err = ErrRunning
          /\ UNCHANGED <<running, downloads, order, nobj, dl>>]_vars

\* add has just failed on a running Client that holds an active Download.
C10_Witness ==
    /\ running /\ res.op = "add" /\ res.err = ErrRunning
    /\ \E o \in Contained : ~is_finished(dl[o])

\* ------------------------------------------------------------------- C11
\* The dictionary dmap2 is dmap without the key i, every other key holding
\* the object it held.
RemovedOnly(dmap, dmap2, i) ==
    /\ DOMAIN dmap2 = DOMAIN dmap \ {i}
    /\ \A j \in DOMAIN dmap2 : dmap2[j] = dmap[j]

\* C11: Client.rem(id) of an id no contained Download has fails with the
\* unknown-id error; of a Download that is not is_finished() it fails with
\* the transfer-in-progress error; both failures leave the collection as it
\* was; otherwise exactly the Download of that id is removed.
C11_RemSingle ==
    [][\A i \in Ids :
         (CallOf("rem") /\ res'.arg = i) =>
           IF i \notin DOMAIN downloads
           THEN res'.err = ErrKey /\ downloads' = downloads /\ dl' = dl
           ELSE IF dl[downloads[i]].status
                     \in {"started", "downloading", "paused", "reconnecting"}
           THEN res'.err = ErrInProgress /\ downloads' = downloads /\ dl' = dl
           ELSE /\ res'.err = Ok
                /\ RemovedOnly(downloads, downloads', i)
                /\ dl' = dl]_vars

\* One of two contained Downloads has been removed by rem(id).
C11_Witness ==
    /\ res.op = "rem" /\ res.err = Ok
    /\ Cardinality(DOMAIN downloads) = 1
    /\ res.arg \notin DOMAIN downloads

\* ------------------------------------------------------------------- C12
\* The step is the call of the Download method op on the object o.
MethodOf(op, o) == CallOf(op) /\ res'.arg = o

\* The step leaves status, start time and byte counters of o as they were.
StartFrame(o) ==
    /\ dl'[o].status = dl[o].status
    /\ dl'[o].start = dl[o].start
    /\ dl'[o].bytes_downloaded = dl[o].bytes_downloaded
    /\ dl'[o].bytes_total = dl[o].bytes_total

\* C12 as stated: Download.start() fails with the already-started error in
\* status 'started' or 'downloading', with the in-progress error in status
\* 'paused' or 'reconnecting', and a failing call leaves status, start time
\* and byte counters unchanged.
C12_StartErrorsAsStated ==
    [][\A o \in Objs :
         MethodOf("Download.start", o) =>
           /\ dl[o].status \in {"started", "downloading"}
                => res'.err = ErrAlreadyStarted /\ StartFrame(o)
           /\ dl[o].status \in {"paused", "reconnecting"}
                => res'.err = ErrProgress /\ StartFrame(o)]_vars

\* C12 amended: Download.start() fails with the already-started error in
\* status 'started' only, with the in-progress error in status
\* 'downloading', 'paused' or 'reconnecting', succeeds in every other
\* status, and a failing call leaves status, start time and byte counters
\* unchanged.
C12_StartErrors ==
    [][\A o \in Objs :
         MethodOf("Download.start", o) =>
           /\ dl[o].status = "started"
                => res'.err = ErrAlreadyStarted
           /\ dl[o].status \in {"downloading", "paused", "reconnecting"}
                => res'.err = ErrProgress
           /\ dl[o].status \in {"ready", "finished", "failed", "stopped"}
                => res'.err = Ok
           /\ res'.err # Ok => StartFrame(o)]_vars

\* The last call was a start() that failed with the in-progress error on a
\* Download that is downloading, has bytes on its counter and keeps the
\* start time of an earlier start().
C12_Witness ==
    /\ res.op = "Download.start" /\ res.err = ErrProgress
    /\ dl[res.arg].status = "downloading"
    /\ dl[res.arg].bytes_downloaded > 0
    /\ dl[res.arg].start \in 1..(calls - 1)

\* ------------------------------------------------------------------- C13
\* C13: Download.stop() on a Download in status 'stopped' fails with the
\* already-stopped error, on one in status 'ready', 'finished' or 'failed'
\* with the already-finished error, and in both cases the status stays.
C13_StopErrors ==
    [][\A o \in Objs :
         MethodOf("Download.stop", o) =>
           /\ dl[o].status = "stopped"
                => res'.err = ErrAlreadyStopped /\ dl'[o].status = "stopped"
           /\ dl[o].status \in {"ready", "finished", "failed"}
                => res'.err = ErrFinished /\ dl'[o].status = dl[o].status]_vars

\* ------------------------------------------------------------------- C14
\* C14: Download.pause() fails with already-finished in a finished status,
\* with already-paused in status 'paused', and otherwise sets 'paused';
\* Download.resume() fails with already-finished in a finished status, with
\* not-paused (ProgressError) in any other status but 'paused', and
\* otherwise sets 'downloading'; a failing call leaves the status.
C14_PauseResumeErrors ==
    [][\A o \in Objs :
         /\ MethodOf("Download.pause", o) =>
              IF is_finished(dl[o])
              THEN res'.err = ErrFinished /\ dl'[o].status = dl[o].status
              ELSE IF dl[o].status = "paused"
              THEN res'.err = ErrPaused /\ dl'[o].status = "paused"
              ELSE res'.err = Ok /\ dl'[o].status = "paused"
         /\ MethodOf("Download.resume", o) =>
              IF is_finished(dl[o])
              THEN res'.err = ErrFinished /\ dl'[o].status = dl[o].status
              ELSE IF dl[o].status # "paused"
              THEN res'.err = ErrProgress /\ dl'[o].status = dl[o].status
              ELSE res'.err = Ok /\ dl'[o].status = "downloading"]_vars

\* A paused Download has been resumed and is downloading.
C14_Witness ==
    /\ res.op = "Download.resume" /\ res.err = Ok
    /\ dl[res.arg].status = "downloading"
    /\ dl[res.arg].pc = "pausewait"

\* ------------------------------------------------------------------- C15
\* C15: whenever the worker of a started Download comes to the end of the
\* chunk sequence and sets the status 'finished' (as it does after a run
\* with no error, pause or stop), get_size_downloaded() and get_size_total()
\* both equal the size of the source, get_progress() is 100.0, and the
\* owning Client has recomputed its running flag.
C15_CompletedRun ==
    [][\A o \in Objs :
         (dl[o].status # "finished" /\ dl'[o].status = "finished") =>
           /\ dl'[o].bytes_downloaded = SrcSize
           /\ dl'[o].bytes_total = SrcSize
           /\ get_progress(dl'[o]) = 1000
           /\ running' = check_is_running(dl', downloads, running)]_vars

\* A Download with no retries has finished after a single call, its
\* start(): no pause, no stop and no error happened, and the file holds the
\* source.
C15_Witness ==
    /\ calls = 1 /\ res.op \in {"Download.start", "start"}
    /\ dl[1].retries = 0
    /\ dl[1].status = "finished"
    /\ get_progress(dl[1]) = 1000
    /\ dl[1].file = [i \in 1..SrcSize |-> i]

\* ------------------------------------------------------------------- C16
\* C16: for a Download in a finished status is_success() returns true
\* exactly when the status is 'finished'; for any other Download it raises
\* the in-progress error.
C16_IsSuccess ==
    \A o \in Contained :
      IF is_finished(dl[o])
      THEN /\ is_success(dl[o]).err = Ok
           /\ is_success(dl[o]).value = (dl[o].status = "finished")
      ELSE is_success(dl[o]).err = ErrProgress

\* ------------------------------------------------------------------- C17
\* The status changes of the table of states.
StatusEdges ==
    { <<"ready", "started">>, <<"started", "downloading">>,
      <<"downloading", "finished">>, <<"downloading", "failed">>,
      <<"downloading", "stopped">>, <<"downloading", "paused">>,
      <<"paused", "downloading">>, <<"downloading", "reconnecting">>,
      <<"reconnecting", "downloading">>, <<"reconnecting", "failed">> }

\* C17: every change of the status of a Download is one of the edges
\* ready->started, started->downloading, downloading->finished/failed/
\* stopped/paused, paused->downloading, downloading->reconnecting,
\* reconnecting->downloading/failed.  (A step of start() holds the first
\* step of the task as well, so ready->started->downloading can show as one
\* change.)
C17_StatusEdges ==
    [][\A o \in Objs :
         dl'[o].status # dl[o].status
           => \/ <<dl[o].status, dl'[o].status>> \in StatusEdges
              \/ /\ CallOf("Download.start") \/ CallOf("start")
                    \/ clientPc = "starting"
                 /\ <<dl[o].status, dl'[o].status>> = <<"ready", "downloading">>]_vars

\* ------------------------------------------------------------------- C18
\* In this step start() succeeds on the never-run Download o and its task
\* ends at its first step: a fresh attempt that found the destination path
\* present (with the path free the task goes on to open the stream).
FreshAttemptEndsAtEntry(o) ==
    /\ dl[o].pc = "init"
    /\ dl'[o].start # dl[o].start
    /\ TaskDone(dl'[o])

\* C18: a freshly started Download whose worker finds the destination path
\* present ends with status 'failed', and no exception leaves the worker.
C18_DestinationExistsFails ==
    [][\A o \in Objs :
         FreshAttemptEndsAtEntry(o)
           => dl'[o].status = "failed" /\ dl'[o].pc # "raised"]_vars

\* ------------------------------------------------------------------- C19
\* The sequence s is the beginning of the sequence t.
IsPrefix(s, t) == Len(s) <= Len(t) /\ SubSeq(t, 1, Len(s)) = s

\* C19: while the status is 'reconnecting' (from the transient failure
\* through the re-entered streaming algorithm) no step truncates or rewrites
\* the partial file or lowers bytes_downloaded: the file goes on beginning
\* with the bytes written before the failure.
C19_PartialFilePreserved ==
    [][\A o \in Objs :
         dl[o].status = "reconnecting" =>
           /\ IsPrefix(dl[o].file, dl'[o].file)
           /\ dl'[o].bytes_downloaded >= dl[o].bytes_downloaded]_vars

\* ------------------------------------------------------------------- C20
\* C20: bytes_downloaded of a Download never decreases during a run: under
\* every interleaving of the worker with pause(), resume() and transient
\* failures, each write of bytes_downloaded stores a value at least as large
\* as the one before.
C20_BytesDownloadedMonotone ==
    [][\A o \in Objs :
         dl'[o].bytes_downloaded >= dl[o].bytes_downloaded]_vars

\* ------------------------------------------------------------------- C21
\* C21: in every state in which the caller is not inside a Client operation,
\* is_running() true implies that some contained Download has a status
\* outside the finished set, the empty collection included.
C21_RunningImpliesActive ==
    (clientPc = "idle" /\ running)
    => \E o \in Contained : ~is_finished(dl[o])

\* ------------------------------------------------------------------- C22
\* C22: while is_running() is true every call of add, rem(True) and rem(id)
\* fails and leaves the collection exactly as it was, rem(id) of a Download
\* that has already finished included.
C22_MembershipFrozenWhileRunning ==
    [][(running /\ (CallOf("add") \/ CallOf("rem(True)") \/ CallOf("rem")))
       => /\ res'.err # Ok
          /\ downloads' = downloads
          /\ order' = order]_vars

\* ------------------------------------------------------------------- C23
\* C23: once pause() has succeeded the status stays 'paused' and nothing is
\* written to the file until the caller calls resume() or stop(): no step of
\* the worker changes a 'paused' status or the file of a paused Download.
C23_PausedUntilResumed ==
    [][\A o \in Objs :
         (dl[o].status = "paused" /\ calls' = calls)
           => dl'[o].status = "paused" /\ dl'[o].file = dl[o].file]_vars

\* ------------------------------------------------------------------- C24
\* This step ends a call of Client.start: it returns or raises.
StartEnds ==
    /\ CallOf("start") \/ clientPc = "starting"
    /\ clientPc' = "idle"
    /\ res'.op = "start"

\* The Download o was moved to "started" by the call of Client.start that
\* ends in this step: its start time is that call.
StartedByThisCall(o) == dl'[o].start = calls'

\* C24: a Client.start() called while is_running() is false that raises
\* because start() of a contained Download fails has changed the status of
\* no contained Download and leaves the flag false; one that returns has
\* started every contained Download and set the flag.
C24_StartAllOrNothing ==
    [][StartEnds =>
         /\ res'.err \in {ErrAlreadyStarted, ErrProgress}
              => /\ \A o \in Contained : ~StartedByThisCall(o)
                 /\ ~running'
         /\ res'.err = Ok
              => /\ \A o \in Contained : StartedByThisCall(o)
                 /\ running']_vars

====
